---- MODULE Spec2Model ----
(***************************************************************************)
(* Model of portal/env_manager.py: per-agent virtual environments.          *)
(*                                                                         *)
(* The persistent state is the filesystem, modelled as the set `fs` of     *)
(* the paths that exist.  A path is a sequence of segments.  ensure_env    *)
(* and run are executed by callers; each caller's position in the code is  *)
(* call[p].pc, so that calls of different callers interleave between the   *)
(* filesystem checks and the subprocess calls exactly where the code has   *)
(* no lock.  A caller may be killed between any two steps (Crash).         *)
(***************************************************************************)
EXTENDS Integers, Sequences, FiniteSets

VARIABLES
    osName,   \* os.name of the host: "nt" or "posix"
    fs,       \* the set of paths that exist
    call,     \* per caller: position in ensure_env / run, arguments, locals
    installed,\* per agent name: manifests pip has installed successfully into its environment
    lastInstallFailed \* per agent name: the last finished ensure_env ended in pip's non-zero exit

vars == <<osName, fs, call, installed, lastInstallFailed>>

----------------------------------------------------------------------------
(* Bounds of the model *)

\* longest command sequence handed to run
MaxCommandLen == 2

\* the two callers of the concurrency hazard: each may be inside ensure_env or run
Callers == {1, 2}
Tokens == {"a", "b"}

\* None for an optional path argument: no path has zero segments
None == <<>>

HOME == <<"home", "u">>
CWD == <<"work">>

\* agent_path arguments of run, as segment sequences; a leading "." is a relative path
AgentPaths ==
    { <<"x", "n1">>, <<"x", "..", "y", "n1">>, <<".", "n2">> }

----------------------------------------------------------------------------
(* Pure functions of the source *)

RECURSIVE Normalize(_, _)
\* collapse "." and ".." segments left to right
Normalize(done, rest) ==
    IF rest = <<>> THEN done
    ELSE IF Head(rest) = "." THEN Normalize(done, Tail(rest))
    ELSE IF Head(rest) = ".." THEN
        Normalize(IF done = <<>> THEN done ELSE SubSeq(done, 1, Len(done) - 1), Tail(rest))
    ELSE Normalize(Append(done, Head(rest)), Tail(rest))

\* Path(agent_path).resolve(): absolute (relative paths are taken from the cwd), normalised
Resolve(p) ==
    IF p # <<>> /\ Head(p) \in {".", ".."} THEN Normalize(CWD, p) ELSE Normalize(<<>>, p)

\* Path.name: the final path segment
PathName(p) == p[Len(p)]

\* os.sep as str(Path) renders it
Sep(os) == IF os = "nt" THEN "\\" ELSE "/"

RECURSIVE Str(_, _)
\* str(path): the segments of an absolute path, each preceded by the separator
Str(os, p) == IF p = <<>> THEN "" ELSE Sep(os) \o Head(p) \o Str(os, Tail(p))

\* _python_executable(env_path)
PythonExecutable(os, env_path) ==
    IF os = "nt" THEN env_path \o <<"Scripts", "python.exe">>
    ELSE env_path \o <<"bin", "python">>

\* env_dir = Path.home() / ".agents" / agent_name
EnvDir(agent_name) == HOME \o <<".agents", agent_name>>

\* marker = env_dir / ".requirements_installed"
Marker(agent_name) == EnvDir(agent_name) \o <<".requirements_installed">>

\* agent_dir / "requirements.txt"
Requirements(agent_dir) == agent_dir \o <<"requirements.txt">>

AgentDirs == { Resolve(p) : p \in AgentPaths }
Names == { PathName(d) : d \in AgentDirs }

\* arguments of direct ensure_env calls: no manifest, or the manifest of x/n1
EnsureArgs ==
    { <<n, None>> : n \in Names } \cup { <<"n1", Requirements(<<"x", "n1">>)>> }

\* command arguments of run: absent, a single token, or a sequence of tokens
SeqsUpTo(n) == UNION { [1..k -> Tokens] : k \in 0..n }
NoCommand == [kind |-> "none", val |-> <<>>]
Commands ==
    { NoCommand }
        \cup { [kind |-> "token", val |-> <<t>>] : t \in Tokens }
        \cup { [kind |-> "seq", val |-> s] : s \in SeqsUpTo(MaxCommandLen) }

\* a bug BuildCmd could have: the default entry file not anchored at agent_dir
BuildCmd_RelativeMain(os, agent_dir, command) ==
    IF command.kind = "none" THEN << "main.py" >>
    ELSE IF command.kind = "token" THEN << command.val[1] >>
    ELSE [i \in 1..Len(command.val) |-> command.val[i]]

\* lines 62-67 of run: the argument vector after the interpreter
BuildCmd(os, agent_dir, command) ==
    IF command.kind = "none" THEN << Str(os, agent_dir \o <<"main.py">>) >>
    ELSE IF command.kind = "token" THEN << command.val[1] >>
    ELSE [i \in 1..Len(command.val) |-> command.val[i]]

\* line 69 of run: full_cmd
FullCmd(os, env_dir, agent_dir, command) ==
    << Str(os, PythonExecutable(os, env_dir)) >> \o BuildCmd(os, agent_dir, command)

\* a bug NeedsCreate could have: the environment is created on every call
NeedsCreate_Always(fsys, agent_name) == TRUE

\* line 27: `if not env_dir.exists()`
NeedsCreate(fsys, agent_name) == EnvDir(agent_name) \notin fsys

\* a bug NeedsInstall could have: the marker is not consulted
NeedsInstall_IgnoreMarker(fsys, requirements, agent_name) ==
    /\ requirements # None
    /\ requirements \in fsys

\* a bug NeedsInstall could have: the manifest's existence is not tested
NeedsInstall_IgnoreExists(fsys, requirements, agent_name) ==
    /\ requirements # None
    /\ Marker(agent_name) \notin fsys

\* line 32: `if requirements and requirements.exists() and not marker.exists()`
NeedsInstall(fsys, requirements, agent_name) ==
    /\ requirements # None
    /\ requirements \in fsys
    /\ Marker(agent_name) \notin fsys

\* a bug LaunchOutcome could stand for: the launch error is swallowed
LaunchOutcome_Swallowed(exists) == "ok"

\* subprocess: launching an executable that does not exist raises FileNotFoundError
LaunchOutcome(exists) == IF exists THEN "ok" ELSE "FileNotFoundError"

\* a bug CheckCall could stand for: subprocess.call, which ignores the exit status
CheckCall_Unchecked(exit) == "ok"

\* subprocess.check_call / run(check=True): a non-zero exit raises CalledProcessError
CheckCall(exit) == IF exit = 0 THEN "ok" ELSE "CalledProcessError"

\* a bug AfterEnsure could stand for: ensure_env's exception caught and ignored
AfterEnsure_Swallowed(ensureResult) == "spawn"

\* line 59 of run: ensure_env is called once, outside any try: its exception ends run
AfterEnsure(ensureResult) == IF ensureResult = "ok" THEN "spawn" ELSE "done"

\* a bug TouchMarker could have: the marker is never written
TouchMarker_Skipped(fsys, agent_name) == fsys

\* line 41: marker.touch()
TouchMarker(fsys, agent_name) == fsys \cup { Marker(agent_name) }

ExitCodes == {0, 1}

----------------------------------------------------------------------------
(* State *)

\* a caller that is not inside ensure_env or run
Idle ==
    [ pc |-> "idle", op |-> "none", agent_path |-> <<>>,
      agent_name |-> "", requirements |-> None,
      envAtStart |-> FALSE, markerAtStart |-> FALSE, afterFailure |-> FALSE,
      sawEnvMissing |-> FALSE, sawMarkerMissing |-> FALSE,
      creates |-> 0, installs |-> 0, pipExit |-> -1, touched |-> FALSE,
      ensureResult |-> "none", ret |-> None,
      command |-> NoCommand, spawned |-> <<>>,
      result |-> "none" ]

\* The filesystem before any call: the home directory, the agent directories, and
\* the requirements.txt of the two agent directories named n1 (work/n2 has none).
Init ==
    /\ osName \in {"nt", "posix"}
    /\ fs = {HOME} \cup AgentDirs
              \cup { Requirements(d) : d \in { a \in AgentDirs : PathName(a) = "n1" } }
    /\ call = [p \in Callers |-> Idle]
    /\ installed = [n \in Names |-> {}]
    /\ lastInstallFailed = [n \in Names |-> FALSE]

Quiet == \A q \in Callers : call[q].pc = "idle"

\* entering ensure_env(agent_name, requirements), line 26
Entered(c, op, agent_name, requirements) ==
    [ c EXCEPT !.pc = "check_env", !.op = op,
               !.agent_name = agent_name, !.requirements = requirements,
               !.envAtStart = EnvDir(agent_name) \in fs,
               !.markerAtStart = Marker(agent_name) \in fs,
               !.afterFailure = lastInstallFailed[agent_name] ]

\* ensure_env ends with `r` ("ok": line 43 returns env_dir; otherwise the exception);
\* inside run, line 59 decides whether run goes on
Exited(c, r) ==
    LET e == [ c EXCEPT !.ensureResult = r,
                        !.ret = IF r = "ok" THEN EnvDir(c.agent_name) ELSE None ]
    IN  IF c.op = "run" /\ AfterEnsure(r) = "spawn"
        THEN [ e EXCEPT !.pc = "spawn" ]
        ELSE [ e EXCEPT !.pc = "done", !.result = r ]

----------------------------------------------------------------------------
(* Actions *)

\* a caller calls ensure_env(agent_name, requirements) directly
EnsureEnv(p, agent_name, requirements, sequential) ==
    /\ call[p].pc = "idle"
    /\ sequential => Quiet
    /\ call' = [call EXCEPT ![p] = Entered(Idle, "ensure", agent_name, requirements)]
    /\ UNCHANGED <<osName, fs, installed, lastInstallFailed>>

\* a caller calls run(agent_path, ...): lines 56-59
Run(p, agent_path, sequential) ==
    /\ call[p].pc = "idle"
    /\ sequential => Quiet
    /\ LET agent_dir == Resolve(agent_path)
           c == [ Idle EXCEPT !.agent_path = agent_path ]
       IN  call' = [call EXCEPT ![p] =
                       Entered(c, "run", PathName(agent_dir), Requirements(agent_dir))]
    /\ UNCHANGED <<osName, fs, installed, lastInstallFailed>>

\* lines 27-28: the existence test and, the directory missing, the parents' mkdir
CheckEnv(p) ==
    LET c == call[p]
        seen == [ c EXCEPT !.sawEnvMissing = EnvDir(c.agent_name) \notin fs ]
    IN  /\ c.pc = "check_env"
        /\ IF NeedsCreate(fs, c.agent_name)
           THEN /\ fs' = fs \cup { HOME \o <<".agents">> }
                /\ call' = [call EXCEPT ![p] =
                               [ seen EXCEPT !.pc = "create" ]]
           ELSE /\ fs' = fs
                /\ call' = [call EXCEPT ![p] = [ seen EXCEPT !.pc = "check_marker" ]]
        /\ UNCHANGED <<osName, installed, lastInstallFailed>>

\* line 29: venv.create is called and makes the environment's root directory first
\* (it takes an existing directory as it is)
VenvCreateRoot(p) ==
    /\ call[p].pc = "create"
    /\ fs' = fs \cup { EnvDir(call[p].agent_name) }
    /\ call' = [call EXCEPT ![p] = [ @ EXCEPT !.pc = "creating", !.creates = @ + 1 ]]
    /\ UNCHANGED <<osName, installed, lastInstallFailed>>

\* venv.create completes: the interpreter (and pip) are in place
VenvCreateFinish(p) ==
    /\ call[p].pc = "creating"
    /\ fs' = fs \cup { PythonExecutable(osName, EnvDir(call[p].agent_name)) }
    /\ call' = [call EXCEPT ![p].pc = "check_marker"]
    /\ UNCHANGED <<osName, installed, lastInstallFailed>>

\* line 29: venv.create raises, called and failing before it made the root directory
\* ("create") or after it did ("creating")
VenvCreateFail(p) ==
    LET c == call[p]
        called == [ c EXCEPT !.creates = IF c.pc = "create" THEN @ + 1 ELSE @ ]
    IN  /\ c.pc \in {"create", "creating"}
        /\ call' = [call EXCEPT ![p] = Exited(called, "EnvCreateError")]
        /\ lastInstallFailed' = [lastInstallFailed EXCEPT ![c.agent_name] = FALSE]
        /\ UNCHANGED <<osName, fs, installed>>

\* lines 31-32: the test (install needed: go on to line 33), or lines 31-32 and 43
\* (not needed: return env_dir)
CheckMarker(p) ==
    LET c == call[p]
        seen == [ c EXCEPT !.sawMarkerMissing = Marker(c.agent_name) \notin fs ]
    IN  /\ c.pc = "check_marker"
        /\ IF NeedsInstall(fs, c.requirements, c.agent_name)
           THEN /\ call' = [call EXCEPT ![p] =
                               [ seen EXCEPT !.pc = "install" ]]
                /\ UNCHANGED lastInstallFailed
           ELSE /\ call' = [call EXCEPT ![p] = Exited(seen, "ok")]
                /\ lastInstallFailed' =
                      [lastInstallFailed EXCEPT ![c.agent_name] = FALSE]
        /\ UNCHANGED <<osName, fs, installed>>

\* lines 33-40: check_call is invoked, the environment's interpreter is missing and
\* cannot be launched
PipMissing(p) ==
    LET c == call[p]
        launch == LaunchOutcome(PythonExecutable(osName, EnvDir(c.agent_name)) \in fs)
        tried == [ c EXCEPT !.installs = @ + 1 ]
    IN  /\ c.pc = "install"
        /\ PythonExecutable(osName, EnvDir(c.agent_name)) \notin fs
        /\ IF launch = "ok"
           THEN /\ call' = [call EXCEPT ![p] = [ tried EXCEPT !.pc = "touch" ]]
                /\ UNCHANGED lastInstallFailed
           ELSE /\ call' = [call EXCEPT ![p] = Exited(tried, launch)]
                /\ lastInstallFailed' =
                      [lastInstallFailed EXCEPT ![c.agent_name] = FALSE]
        /\ UNCHANGED <<osName, fs, installed>>

\* lines 33-40: check_call is invoked, pip runs in the environment and exits with `exit`
PipInstall(p, exit) ==
    LET c == call[p]
        ran == [ c EXCEPT !.installs = @ + 1, !.pipExit = exit ]
    IN  /\ c.pc = "install"
        /\ PythonExecutable(osName, EnvDir(c.agent_name)) \in fs
        /\ installed' = IF exit = 0
                        THEN [installed EXCEPT ![c.agent_name] = @ \cup {c.requirements}]
                        ELSE installed
        /\ IF CheckCall(exit) = "ok"
           THEN /\ call' = [call EXCEPT ![p] = [ ran EXCEPT !.pc = "touch" ]]
                /\ UNCHANGED lastInstallFailed
           ELSE /\ call' = [call EXCEPT ![p] = Exited(ran, CheckCall(exit))]
                /\ lastInstallFailed' =
                      [lastInstallFailed EXCEPT ![c.agent_name] = (exit > 0)]
        /\ UNCHANGED <<osName, fs>>

\* lines 41, 43: marker.touch() and return env_dir
Touch(p) ==
    LET c == call[p]
    IN  /\ c.pc = "touch"
        /\ fs' = TouchMarker(fs, c.agent_name)
        /\ call' = [call EXCEPT ![p] = Exited([ c EXCEPT !.touched = TRUE ], "ok")]
        /\ lastInstallFailed' =
              [lastInstallFailed EXCEPT ![c.agent_name] = (c.pipExit > 0)]
        /\ UNCHANGED <<osName, installed>>

\* lines 60-70 of run, the interpreter missing: subprocess.run cannot launch it
SpawnMissing(p, command) ==
    LET c == call[p]
    IN  /\ c.pc = "spawn"
        /\ PythonExecutable(osName, c.ret) \notin fs
        /\ call' = [call EXCEPT ![p] =
                       [ c EXCEPT !.pc = "done", !.command = command,
                                  !.result = LaunchOutcome(FALSE) ]]
        /\ UNCHANGED <<osName, fs, installed, lastInstallFailed>>

\* lines 60-70 of run: the agent process is spawned and exits with `exit`
Spawn(p, command, exit) ==
    LET c == call[p]
        agent_dir == Resolve(c.agent_path)
        proc == [ argv |-> FullCmd(osName, c.ret, agent_dir, command),
                  cwd |-> Str(osName, agent_dir) ]
    IN  /\ c.pc = "spawn"
        /\ PythonExecutable(osName, c.ret) \in fs
        /\ call' = [call EXCEPT ![p] =
                       [ c EXCEPT !.pc = "done", !.command = command,
                                  !.spawned = Append(@, proc),
                                  !.result = CheckCall(exit) ]]
        /\ UNCHANGED <<osName, fs, installed, lastInstallFailed>>

\* the caller has the result (or the exception) and is free to call again
Return(p) ==
    /\ call[p].pc = "done"
    /\ call' = [call EXCEPT ![p] = Idle]
    /\ UNCHANGED <<osName, fs, installed, lastInstallFailed>>

\* the calling process is killed between two steps; the filesystem stays as it is
Crash(p) ==
    /\ call[p].pc \notin {"idle", "done"}
    /\ call' = [call EXCEPT ![p] = Idle]
    /\ UNCHANGED <<osName, fs, installed, lastInstallFailed>>

Step(p, commands) ==
    \/ CheckEnv(p)
    \/ VenvCreateRoot(p)
    \/ VenvCreateFinish(p)
    \/ VenvCreateFail(p)
    \/ CheckMarker(p)
    \/ PipMissing(p)
    \/ \E exit \in ExitCodes : PipInstall(p, exit)
    \/ Touch(p)
    \/ \E command \in commands : SpawnMissing(p, command)
    \/ \E command \in commands, exit \in ExitCodes : Spawn(p, command, exit)
    \/ Return(p)
    \/ Crash(p)

Begin(p, sequential) ==
    \/ \E a \in EnsureArgs : EnsureEnv(p, a[1], a[2], sequential)
    \/ \E a \in AgentPaths : Run(p, a, sequential)

\* Callers run concurrently: the source has no lock.  The command plays no part in
\* the races, so concurrent runs use the default command.
Next == \E p \in Callers : Begin(p, FALSE) \/ Step(p, {NoCommand})

Spec == Init /\ [][Next]_vars

\* One call at a time (a call begins only when no caller is inside one), with every
\* command.
NextSeq == \E p \in Callers : Begin(p, TRUE) \/ Step(p, Commands)

SeqSpec == Init /\ [][NextSeq]_vars

----------------------------------------------------------------------------
(* Properties *)

\* the manifest handed to the call is a path that exists
ReqExists(c) == c.requirements # None /\ c.requirements \in fs

\* the interpreter of agent_name's environment is in place
EnvComplete(agent_name) == PythonExecutable(osName, EnvDir(agent_name)) \in fs

\* C1: with one call at a time, an ensure_env call with an existing manifest that
\* starts without the marker and returns normally has invoked the installer exactly
\* once and written the marker; a call that starts with the marker present invokes
\* the installer zero times; no call invokes it more than once.
C1_InstallOnceThenSkip ==
    \A p \in Callers :
        LET c == call[p]
        IN  /\ c.installs <= 1
            /\ (c.ensureResult = "ok" /\ ReqExists(c) /\ ~c.markerAtStart)
                  => /\ c.installs = 1
                     /\ c.pipExit = 0
                     /\ Marker(c.agent_name) \in fs
            /\ c.markerAtStart => c.installs = 0

\* a later ensure_env(n1, m) has returned without installing, after the one install
C1_Witness ==
    \E p \in Callers :
        LET c == call[p]
        IN  /\ c.op = "ensure" /\ c.pc = "done" /\ c.result = "ok"
            /\ ReqExists(c) /\ c.markerAtStart /\ c.installs = 0
            /\ installed[c.agent_name] = {c.requirements}

\* C2: with one call at a time, when pip exits non-zero the call ends at once with
\* CalledProcessError and the marker does not exist; the next ensure_env call for that
\* name with an existing manifest that runs to its end invokes the installer again.
C2_FailedInstallRetried ==
    \A p \in Callers :
        LET c == call[p]
        IN  /\ c.pipExit > 0
                  => /\ c.pc = "done"
                     /\ c.result = "CalledProcessError"
                     /\ ~c.touched
                     /\ Marker(c.agent_name) \notin fs
            /\ (c.afterFailure /\ ReqExists(c) /\ c.ensureResult # "none")
                  => c.installs = 1

\* the call after a failed install has installed and written the marker
C2_Witness ==
    \E p \in Callers :
        LET c == call[p]
        IN  /\ c.afterFailure /\ ReqExists(c)
            /\ c.installs = 1 /\ c.pipExit = 0 /\ c.touched
            /\ Marker(c.agent_name) \in fs

\* C3: whenever ensure_env has returned normally, the environment it returned holds
\* its interpreter (it is a completely created environment).
C3_ReturnedEnvUsable ==
    \A p \in Callers :
        call[p].ensureResult = "ok" => EnvComplete(call[p].agent_name)

\* C4: a call that begins when the environment's root directory exists never invokes
\* venv.create, whether or not the interpreter is there; such a call of ensure_env
\* without a manifest writes nothing and starts no subprocess.
C4_NoCreateOnceRootExists ==
    \A p \in Callers :
        LET c == call[p]
        IN  /\ c.envAtStart => (c.creates = 0 /\ c.pc \notin {"create", "creating"})
            /\ (c.envAtStart /\ c.op = "ensure" /\ c.requirements = None)
                  => /\ c.installs = 0
                     /\ ~c.touched
                     /\ c.spawned = <<>>

\* ensure_env(n) has returned over a root directory left without interpreter by an
\* earlier call, and nobody is creating it
C4_Witness ==
    \E p \in Callers :
        LET c == call[p]
        IN  /\ c.op = "ensure" /\ c.requirements = None
            /\ c.envAtStart /\ c.pc = "done" /\ c.result = "ok" /\ c.creates = 0
            /\ ~EnvComplete(c.agent_name)
            /\ \A q \in Callers \ {p} : call[q].pc = "idle"

\* C5: the marker of an environment exists only if pip has exited 0 in that
\* environment, and a call writes the marker only after its own pip exited 0.
C5_MarkerOnlyAfterInstall ==
    /\ \A n \in Names : Marker(n) \in fs => installed[n] # {}
    /\ \A p \in Callers :
          (call[p].touched \/ call[p].pc = "touch") => call[p].pipExit = 0

\* the marker exists after a failed install and after two successful ones
C5_Witness ==
    \E n \in Names :
        /\ Marker(n) \in fs
        /\ Cardinality(installed[n]) = 2
        /\ lastInstallFailed[n]

\* C6: a call whose manifest is absent or does not exist never invokes the installer
\* and never writes the marker; when its ensure_env returns, the environment's root
\* exists, its path is the one returned, and it was created by this call if the call
\* found it missing.
C6_NoManifestNoInstall ==
    \A p \in Callers :
        LET c == call[p]
        IN  (c.pc # "idle" /\ ~ReqExists(c))
               => /\ c.installs = 0
                  /\ c.pipExit = -1
                  /\ ~c.touched
                  /\ c.ensureResult = "ok"
                        => /\ EnvDir(c.agent_name) \in fs
                           /\ c.ret = EnvDir(c.agent_name)
                           /\ c.sawEnvMissing => (c.creates = 1 /\ EnvComplete(c.agent_name))

\* run of the agent directory without requirements.txt created the environment,
\* installed nothing and ran the agent
C6_Witness ==
    \E p \in Callers :
        LET c == call[p]
        IN  /\ c.op = "run" /\ c.requirements # None /\ c.requirements \notin fs
            /\ c.creates = 1 /\ c.installs = 0
            /\ c.ret = EnvDir(c.agent_name)
            /\ Marker(c.agent_name) \notin fs
            /\ Len(c.spawned) = 1

\* C7: a caller invokes venv.create only after it saw the directory missing and the
\* installer only after it saw the marker missing, whatever the other caller did in
\* between: nothing else keeps two callers apart.
C7_OnlyTheCheckGuards ==
    \A p \in Callers :
        LET c == call[p]
        IN  /\ c.creates > 0 => c.sawEnvMissing
            /\ c.installs > 0 => c.sawMarkerMissing

\* both callers invoked venv.create for the same directory, and both invoked the
\* installer for the same environment, both installs succeeding
C7_Witness ==
    \E p, q \in Callers :
        /\ p # q
        /\ call[p].agent_name = call[q].agent_name
        /\ call[p].creates = 1 /\ call[q].creates = 1
        /\ call[p].installs = 1 /\ call[q].installs = 1
        /\ call[p].pipExit = 0 /\ call[q].pipExit = 0
        /\ call[p].result = "ok" /\ call[q].result = "ok"

\* C8: run spawns the agent process only after its ensure_env returned normally; when
\* ensure_env raised, run ends with that error, has spawned nothing and has called
\* neither venv.create nor the installer a second time.
C8_RunPropagatesEnsureError ==
    \A p \in Callers :
        LET c == call[p]
        IN  c.op = "run"
               => /\ (c.pc = "spawn" \/ c.spawned # <<>>) => c.ensureResult = "ok"
                  /\ c.ensureResult \notin {"none", "ok"}
                        => /\ c.pc = "done"
                           /\ c.result = c.ensureResult
                           /\ c.spawned = <<>>
                           /\ c.creates <= 1 /\ c.installs <= 1

\* run has ended with the installer's error
C8_Witness ==
    \E p \in Callers :
        LET c == call[p]
        IN  /\ c.op = "run" /\ c.pc = "done"
            /\ c.pipExit > 0 /\ c.result = "CalledProcessError"
            /\ c.spawned = <<>>

\* the text of the interpreter's path in the environment of agent name n
InterpreterText(n) ==
    IF osName = "nt"
    THEN "\\home\\u\\.agents\\" \o n \o "\\Scripts\\python.exe"
    ELSE "/home/u/.agents/" \o n \o "/bin/python"

\* C9: run spawns at most one process, and exactly one when its ensure_env returned
\* normally over a complete environment; the process runs in the resolved agent_path,
\* and its arguments are the interpreter of the environment named by the resolved
\* agent_path's last segment, followed by agent_path/main.py (no command), the token
\* (a single token) or the elements in their order (a sequence).
C9_SpawnedArguments ==
    \A p \in Callers :
        LET c == call[p]
            dir == Resolve(c.agent_path)
        IN  c.op = "run"
               => /\ Len(c.spawned) <= 1
                  /\ (c.pc = "done" /\ c.ensureResult = "ok" /\ EnvComplete(c.agent_name))
                        => Len(c.spawned) = 1
                  /\ \A i \in 1..Len(c.spawned) :
                        LET argv == c.spawned[i].argv
                        IN  /\ c.spawned[i].cwd = Str(osName, dir)
                            /\ argv[1] = InterpreterText(dir[Len(dir)])
                            /\ c.command.kind = "none"
                                  => argv = <<argv[1], Str(osName, dir) \o Sep(osName) \o "main.py">>
                            /\ c.command.kind = "token" => argv = <<argv[1], c.command.val[1]>>
                            /\ c.command.kind = "seq"
                                  => /\ Len(argv) = Len(c.command.val) + 1
                                     /\ \A k \in 1..Len(c.command.val) :
                                           argv[k + 1] = c.command.val[k]

\* run(x/../y/n1, ["b", "a"]) has spawned its process
C9_Witness ==
    \E p \in Callers :
        LET c == call[p]
        IN  /\ c.op = "run" /\ c.agent_path = <<"x", "..", "y", "n1">>
            /\ c.command = [kind |-> "seq", val |-> <<"b", "a">>]
            /\ Len(c.spawned) = 1
            /\ c.spawned[1].argv[2] = "b" /\ c.spawned[1].argv[3] = "a"

\* C10 as stated: calls that begin when the marker of their agent name exists never
\* invoke the installer, and, the marker existing, the dependencies in the environment
\* are those of one manifest only, the first installed successfully.
C10_FirstManifestOnly ==
    /\ \A p \in Callers : call[p].markerAtStart => call[p].installs = 0
    /\ \A n \in Names : Marker(n) \in fs => Cardinality(installed[n]) = 1

\* C10 (amended): a call (ensure_env or run, with any manifest) that begins when the
\* marker of its agent name exists never invokes the installer and installs nothing,
\* so it leaves the environment's dependencies as they were; run derives the
\* environment from the last segment of the resolved agent_path alone, so agent
\* directories of one name share the environment and its marker.
C10_MarkerBlocksEveryLaterInstall ==
    \A p \in Callers :
        LET c == call[p]
        IN  /\ c.markerAtStart
                  => /\ c.installs = 0
                     /\ c.pipExit = -1
                     /\ c.pc \notin {"install", "touch"}
            /\ (c.op = "run" /\ c.ensureResult = "ok")
                  => c.ret = HOME \o <<".agents", Resolve(c.agent_path)[Len(Resolve(c.agent_path))]>>

\* run of y/n1, whose own requirements.txt exists, found the marker written for
\* x/n1's manifest and ran in the shared environment with only x/n1's dependencies
C10_Witness ==
    \E p \in Callers :
        LET c == call[p]
        IN  /\ c.op = "run" /\ Resolve(c.agent_path) = <<"y", "n1">>
            /\ ReqExists(c) /\ c.markerAtStart
            /\ installed["n1"] = { Requirements(<<"x", "n1">>) }
            /\ c.installs = 0 /\ Len(c.spawned) = 1 /\ c.result = "ok"

====
